---- MODULE Spec2Model ----
(***************************************************************************)
(* Model of scandeval/openai_models.py: the OpenAITokenizer shim and the   *)
(* control flow of OpenAIModel.generate against a nondeterministic remote  *)
(* API.  Texts are sequences of characters, token sequences are sequences  *)
(* of integers, floats are held in tenths (1.0 is 10).                     *)
(***************************************************************************)
EXTENDS Integers, Sequences, FiniteSets, TLC

VARIABLES
    text_list,           \* argument of the tokenizer's __call__ in progress
    padded_input_ids,    \* input_ids returned by the tokenizer's __call__
    decoded,             \* row and text of the tokenizer's last decode
    tpc,                 \* position of the tokenizer's caller
    hf_model_config,     \* reference configuration: optional token ids
    tokenizer,           \* OpenAITokenizer attributes set by __init__
    callerCfg,           \* the GenerationConfig object the caller owns
    call,                \* arguments of the generate call in progress
    generation_config,   \* generate's local: the effective configuration
    multiple_inputs,     \* generate's local
    inputs_list,         \* generate's local: inputs with padding removed
    is_chat_model,       \* generate's local, set by the probe
    completion_ids_list, \* generate's local
    idx,                 \* position of the chat-style for loop in inputs_list
    generation_output,   \* choice texts of the last successful generation request
    pc,                  \* position of generate
    exc,                 \* exception that left generate, if any
    result,              \* tensor returned by generate, if any
    requests,            \* every remote request issued by the call, in order
    sleeps,              \* every sleep of the call, in order (seconds)
    faults,              \* every error raised by a remote request of the call
    attemptsDone         \* generation attempts that ran to the end of the try body

tokvars == <<text_list, padded_input_ids, decoded, tpc>>

vars == <<tokvars, hf_model_config, tokenizer, callerCfg, call, generation_config,
          multiple_inputs, inputs_list, is_chat_model, completion_ids_list, idx,
          generation_output, pc, exc, result, requests, sleeps, faults,
          attemptsDone>>

-----------------------------------------------------------------------------
(* Bounds of the model *)

MaxBatch == 2       \* rows of a batched input
MaxRequests == 5    \* remote requests of one generate call
MaxFaults == 2      \* errors raised by the remote during one generate call

-----------------------------------------------------------------------------
(* Texts and the byte-pair encoding *)

\* characters: 0 is a blank, 1 is "!", 2 is "a", and 3 stands for the text
\* of the encoding's special token, "<|endoftext|>"
Chars == 0 .. 3
Blank == 0
SpecialChar == 3

\* token ids: "!" is token 0 (as in the GPT encodings), "a" is 1, the blank is
\* 2, the pair "aa" is merged into token 3, and the special token is 5
SpecialId == 5

RECURSIVE EncodingEncode(_)
EncodingEncode(text) ==
    IF Len(text) = 0 THEN <<>>
    ELSE IF Len(text) >= 2 /\ text[1] = 2 /\ text[2] = 2
         THEN <<3>> \o EncodingEncode(SubSeq(text, 3, Len(text)))
         ELSE <<CASE text[1] = 0 -> 2
                  [] text[1] = 1 -> 0
                  [] text[1] = SpecialChar -> SpecialId
                  [] OTHER -> 1>> \o EncodingEncode(Tail(text))

RECURSIVE EncodingDecode(_)
EncodingDecode(token_ids) ==
    IF Len(token_ids) = 0 THEN <<>>
    ELSE (CASE Head(token_ids) = 0 -> <<1>>
            [] Head(token_ids) = 1 -> <<2>>
            [] Head(token_ids) = 2 -> <<0>>
            [] Head(token_ids) = 3 -> <<2, 2>>
            [] Head(token_ids) = SpecialId -> <<SpecialChar>>
            [] OTHER -> <<>>) \o EncodingDecode(Tail(token_ids))

\* str.strip(): leading and trailing blanks removed
RECURSIVE LStrip(_)
LStrip(text) ==
    IF Len(text) > 0 /\ Head(text) = Blank THEN LStrip(Tail(text)) ELSE text

RECURSIVE RStrip(_)
RStrip(text) ==
    IF Len(text) > 0 /\ text[Len(text)] = Blank
    THEN RStrip(SubSeq(text, 1, Len(text) - 1))
    ELSE text

Strip(text) == RStrip(LStrip(text))

-----------------------------------------------------------------------------
(* Optional values: <<>> is None, <<v>> is the value v *)

None == <<>>
Some(v) == <<v>>
IsNone(o) == Len(o) = 0

\* Python's `o or d`: d when o is None or falsy (0)
OrElse(o, d) == IF IsNone(o) \/ o[1] = 0 THEN d ELSE o[1]

\* Python's `x != o` for an integer x and an optional integer o
NotEqualOpt(x, o) == IsNone(o) \/ x # o[1]

-----------------------------------------------------------------------------
(* torch.nn.utils.rnn.pad_sequence(batch_first=True) *)

RECURSIVE MaxLenOf(_)
MaxLenOf(seqs) ==
    IF Len(seqs) = 0 THEN 0
    ELSE LET m == MaxLenOf(Tail(seqs))
         IN IF Len(Head(seqs)) > m THEN Len(Head(seqs)) ELSE m

\* mutant of PadRow: the padding goes in front of the row
PadRowLeft(row, n, padding_value) ==
    [j \in 1 .. n |->
        IF j <= n - Len(row) THEN padding_value ELSE row[j - (n - Len(row))]]

PadRow(row, n, padding_value) ==
    [j \in 1 .. n |-> IF j <= Len(row) THEN row[j] ELSE padding_value]

pad_sequence(sequences, padding_value) ==
    [i \in 1 .. Len(sequences) |->
        PadRow(sequences[i], MaxLenOf(sequences), padding_value)]

-----------------------------------------------------------------------------
(* OpenAITokenizer *)

SentinelId == 0 - 1

PadIdOf(hf) == OrElse(hf.pad_token_id, SentinelId)

OpenAITokenizerInit(hf) ==
    [bos_token_id |-> OrElse(hf.bos_token_id, SentinelId),
     cls_token_id |-> OrElse(hf.bos_token_id, SentinelId),
     eos_token_id |-> OrElse(hf.eos_token_id, SentinelId),
     sep_token_id |-> OrElse(hf.eos_token_id, SentinelId),
     pad_token_id |-> PadIdOf(hf)]

\* allowed_special holds the texts of the bos, eos, cls and sep tokens and
\* "<pad>": the special token's text is in it when bos or eos is its id
SpecialAllowed(tok) ==
    tok.bos_token_id = SpecialId \/ tok.eos_token_id = SpecialId

\* encoding.encode raises ValueError on a special token's text that is not
\* in allowed_special
EncodeRaises(tok, text) ==
    /\ ~SpecialAllowed(tok)
    /\ \E i \in 1 .. Len(text) : text[i] = SpecialChar

\* __call__ on a list of texts
TokenizerCall(tok, texts) ==
    pad_sequence([i \in 1 .. Len(texts) |-> EncodingEncode(texts[i])],
                 tok.pad_token_id)

\* mutant of IsNotTokenizerPad: the special token is dropped as well
IsNeitherPadNorSpecial(tok, token_id) ==
    token_id # tok.pad_token_id /\ token_id # SpecialId

IsNotTokenizerPad(tok, token_id) == token_id # tok.pad_token_id

TokenizerDecode(tok, token_ids) ==
    EncodingDecode(SelectSeq(token_ids, LAMBDA t : IsNotTokenizerPad(tok, t)))

-----------------------------------------------------------------------------
(* transformers.GenerationConfig, with the fields generate reads *)

Fields == {"max_length", "temperature", "top_p", "num_return_sequences",
           "repetition_penalty"}

DefaultGenerationConfig ==
    [max_length |-> 20, temperature |-> 10, top_p |-> 10,
     num_return_sequences |-> 1, repetition_penalty |-> 10]

\* mutant of Setattrs: the overrides are dropped
SetattrsDropped(config, generation_kwargs) == config

\* for key, value in generation_kwargs.items(): setattr(config, key, value)
Setattrs(config, generation_kwargs) ==
    [f \in DOMAIN config |->
        IF f \in DOMAIN generation_kwargs THEN generation_kwargs[f] ELSE config[f]]

\* GenerationConfig(**generation_kwargs)
GenerationConfigNew(generation_kwargs) ==
    [f \in Fields |->
        IF f \in DOMAIN generation_kwargs THEN generation_kwargs[f]
        ELSE DefaultGenerationConfig[f]]

\* the effective configuration of a call; passed is the caller's object or None
ResolveConfig(passed, generation_kwargs) ==
    IF IsNone(passed) THEN GenerationConfigNew(generation_kwargs)
    ELSE Setattrs(passed[1], generation_kwargs)

\* the sampling parameters of a generation request
OneInTenths == 10
SamplingParams(config) ==
    [max_tokens |-> config.max_length,
     temperature |-> config.temperature,
     top_p |-> config.top_p,
     n |-> config.num_return_sequences,
     frequency_penalty |-> config.repetition_penalty - OneInTenths]

-----------------------------------------------------------------------------
(* OpenAIModel.generate: pure parts *)

IsNotConfigPad(hf, token_id) == NotEqualOpt(token_id, hf.pad_token_id)

RemovePadRow(hf, token_ids) ==
    SelectSeq(token_ids, LAMBDA t : IsNotConfigPad(hf, t))

\* "Remove padding tokens": a list of lists for a 2-D input, a flat list of
\* token ids for a 1-D input
RemovePadding(hf, inputs, multiple) ==
    IF multiple THEN [i \in 1 .. Len(inputs) |-> RemovePadRow(hf, inputs[i])]
    ELSE RemovePadRow(hf, inputs)

ProbePrompt == "Test"
ProbeMaxTokens == 10
ProbeRequest ==
    [kind |-> "probe", prompt |-> ProbePrompt,
     params |-> [max_tokens |-> ProbeMaxTokens]]

\* mutant of ProbeHandler: every invalid-request error is taken for the
\* chat-model signal
ProbeHandlerAnyInvalid(e) ==
    IF e.type = "InvalidRequestError" THEN "chat" ELSE "raise"

\* the except clause around the probe; chat_msg is
\* "This is a chat model" in str(e)
ProbeHandler(e) ==
    IF e.type = "InvalidRequestError"
    THEN IF e.chat_msg THEN "chat" ELSE "raise"
    ELSE "raise"

RetryableTypes == {"RateLimitError", "APIError"}

\* mutant of GenerationHandler: invalid-request errors are retried too
GenerationHandlerRetriesInvalid(e) ==
    IF e.type \in RetryableTypes \cup {"InvalidRequestError"}
    THEN "sleep" ELSE "raise"

\* the except clauses of the while loop
GenerationHandler(e) == IF e.type \in RetryableTypes THEN "sleep" ELSE "raise"

SleepSeconds == 10

\* mutant of AfterSleep: the retry starts over at the probe
AfterSleepReprobes == "probe"

\* where control goes after the sleep: `continue` of the while loop
AfterSleep == "attempt"

\* where control goes after a completion request's choices were re-tokenized:
\* the if branch holds no break, so the while loop runs again
AfterCompletion == "attempt"

\* where control goes after the chat-style for loop: break, then reassembly
AfterChatLoop == "reassemble"

\* self.tokenizer(text.strip())["input_ids"][0].tolist()
Retokenize(tok, text) == TokenizerCall(tok, <<Strip(text)>>)[1]

IsRectangular(rows) == \A i \in 1 .. Len(rows) : Len(rows[i]) = Len(rows[1])

NoTensor == [dim |-> 0, data |-> <<>>]
NoError == [type |-> "none", chat_msg |-> FALSE]

\* the statements after the while loop
Reassemble(tok, multiple, ids_list) ==
    IF multiple
    THEN IF Len(ids_list) = 0
         THEN [ok |-> FALSE, tensor |-> NoTensor,
               error |-> [type |-> "RuntimeError", chat_msg |-> FALSE]]
         ELSE [ok |-> TRUE,
               tensor |-> [dim |-> 2,
                           data |-> pad_sequence(ids_list, tok.pad_token_id)],
               error |-> NoError]
    ELSE IF Len(ids_list) = 0
         THEN [ok |-> TRUE, tensor |-> [dim |-> 1, data |-> <<>>],
               error |-> NoError]
         ELSE IF IsRectangular(ids_list)
              THEN [ok |-> TRUE, tensor |-> [dim |-> 2, data |-> ids_list],
                    error |-> NoError]
              ELSE [ok |-> FALSE, tensor |-> NoTensor,
                    error |-> [type |-> "ValueError", chat_msg |-> FALSE]]

-----------------------------------------------------------------------------
(* The environment: callers and the remote API *)

PadTokenIds == {None, Some(0), Some(4)}

RECURSIVE SeqsUpTo(_, _)
SeqsUpTo(S, n) ==
    IF n = 0 THEN {<<>>}
    ELSE LET shorter == SeqsUpTo(S, n - 1)
         IN shorter \cup {Append(s, x) : s \in shorter, x \in S}

\* texts callers encode: "!" and "a!"
InputTexts == {<<1>>, <<2, 1>>}
TextBatches == SeqsUpTo(InputTexts, MaxBatch) \ {<<>>}

CallerConfigs ==
    {[max_length |-> 5, temperature |-> 0, top_p |-> 9,
      num_return_sequences |-> 1, repetition_penalty |-> 12]}

NoKwargs == [f \in {} |-> 0]
KwargsChoices == {NoKwargs, [num_return_sequences |-> 2, max_length |-> 7]}

\* texts the remote answers with: "aa!", " ! " and " "
ChoiceTexts == <<<<2, 2, 1>>, <<0, 1, 0>>, <<0>>>>

\* the answers of the remote to a request for m choices: the texts above in
\* turn, from any of them on
RemoteChoices(m) ==
    {[i \in 1 .. m |-> ChoiceTexts[((i + k) % Len(ChoiceTexts)) + 1]] :
        k \in 1 .. Len(ChoiceTexts)}

Error(type, chat_msg) == [type |-> type, chat_msg |-> chat_msg]
Errors ==
    {Error("RateLimitError", FALSE), Error("APIError", FALSE),
     Error("InvalidRequestError", TRUE),
     Error("InvalidRequestError", FALSE), Error("AuthenticationError", FALSE)}

\* prompts of a completion request: a list of token lists is one prompt per
\* list, a flat token list is one prompt
NumPrompts == IF multiple_inputs THEN Len(inputs_list) ELSE 1

CanRequest == Len(requests) < MaxRequests
CanFail == Len(faults) < MaxFaults

-----------------------------------------------------------------------------
(* State machine *)

\* the tokenizer has not been called
TokenizerIdle ==
    /\ text_list = <<>>
    /\ padded_input_ids = <<>>
    /\ decoded = [row |-> 0, text |-> <<>>]
    /\ tpc = "idle"

\* no generate call has begun
GenerateIdle ==
    /\ callerCfg \in CallerConfigs
    /\ call = [dim |-> 0, inputs |-> <<>>, content |-> <<>>, passed |-> FALSE,
               kwargs |-> NoKwargs, config0 |-> callerCfg]
    /\ generation_config = DefaultGenerationConfig
    /\ multiple_inputs = FALSE
    /\ inputs_list = <<>>
    /\ is_chat_model = FALSE
    /\ completion_ids_list = <<>>
    /\ idx = 0
    /\ generation_output = <<>>
    /\ pc = "idle"
    /\ exc = NoError
    /\ result = NoTensor
    /\ requests = <<>>
    /\ sleeps = <<>>
    /\ faults = <<>>
    /\ attemptsDone = 0

Init ==
    /\ hf_model_config \in [pad_token_id : PadTokenIds,
                            bos_token_id : {Some(SpecialId)},
                            eos_token_id : {Some(SpecialId)}]
    /\ tokenizer = OpenAITokenizerInit(hf_model_config)
    /\ TokenizerIdle
    /\ GenerateIdle

\* generate(inputs, generation_config, **generation_kwargs) up to the probe
\* content is the token sequences the inputs were padded from, config0 the
\* caller's configuration object as it was before the call
Enter(inputs, content, dim, passed, kwargs) ==
    /\ pc = "idle"
    /\ call' = [dim |-> dim, inputs |-> inputs, content |-> content,
                passed |-> passed, kwargs |-> kwargs, config0 |-> callerCfg]
    /\ generation_config' =
          ResolveConfig(IF passed THEN Some(callerCfg) ELSE None, kwargs)
    /\ callerCfg' = IF passed THEN generation_config' ELSE callerCfg
    /\ multiple_inputs' = (dim = 2)
    /\ inputs_list' = RemovePadding(hf_model_config, inputs, dim = 2)
    /\ pc' = "probe"
    /\ UNCHANGED <<tokvars, hf_model_config, tokenizer, is_chat_model,
                   completion_ids_list, idx, generation_output, exc, result,
                   requests, sleeps, faults, attemptsDone>>

\* a batch built by the tokenizer is passed whole
GenerateBatch ==
    \E texts \in TextBatches, passed \in BOOLEAN, kwargs \in KwargsChoices :
        Enter(TokenizerCall(tokenizer, texts),
              [i \in 1 .. Len(texts) |-> EncodingEncode(texts[i])],
              2, passed, kwargs)

\* one row of a batch built by the tokenizer is passed
GenerateSingle ==
    \E texts \in TextBatches, passed \in BOOLEAN, kwargs \in KwargsChoices :
        \E i \in 1 .. Len(texts) :
            Enter(TokenizerCall(tokenizer, texts)[i], EncodingEncode(texts[i]),
                  1, passed, kwargs)

Raise(e) ==
    /\ pc' = "raised"
    /\ exc' = e

\* history: the error e of the request being issued, with the number of
\* attempts completed and of sleeps taken when it was raised
Fault(e) ==
    faults' = Append(faults, [request |-> Len(requests) + 1, error |-> e,
                              done |-> attemptsDone, slept |-> Len(sleeps)])

ProbeOk ==
    /\ pc = "probe"
    /\ requests' = Append(requests, ProbeRequest)
    /\ is_chat_model' = FALSE
    /\ pc' = "attempt"
    /\ UNCHANGED <<tokvars, hf_model_config, tokenizer, callerCfg, call,
                   generation_config, multiple_inputs, inputs_list,
                   completion_ids_list, idx, generation_output, exc, result,
                   sleeps, faults, attemptsDone>>

ProbeRaises ==
    \E e \in Errors :
        /\ pc = "probe"
        /\ requests' = Append(requests, ProbeRequest)
        /\ Fault(e)
        /\ IF ProbeHandler(e) = "chat"
           THEN /\ is_chat_model' = TRUE
                /\ pc' = "attempt"
                /\ exc' = exc
           ELSE /\ Raise(e)
                /\ is_chat_model' = is_chat_model
        /\ UNCHANGED <<tokvars, hf_model_config, tokenizer, callerCfg, call,
                       generation_config, multiple_inputs, inputs_list,
                       completion_ids_list, idx, generation_output, result,
                       sleeps, attemptsDone>>

CompletionRequest ==
    [kind |-> "completion", prompt |-> inputs_list,
     params |-> SamplingParams(generation_config)]

\* mutant of ChatRequest: the message goes to the completion endpoint
ChatRequestToCompletion(input_ids) ==
    [kind |-> "completion",
     prompt |-> <<[role |-> "user",
                   content |-> TokenizerDecode(tokenizer, input_ids)]>>,
     params |-> SamplingParams(generation_config)]

ChatRequest(input_ids) ==
    [kind |-> "chat",
     prompt |-> <<[role |-> "user",
                   content |-> TokenizerDecode(tokenizer, input_ids)]>>,
     params |-> SamplingParams(generation_config)]

\* the except clauses of the while loop, applied to an error e of a
\* generation request
Except(e) ==
    /\ Fault(e)
    /\ IF GenerationHandler(e) = "sleep"
       THEN /\ CanFail
            /\ pc' = "sleep"
            /\ exc' = exc
       ELSE Raise(e)

CompletionOk ==
    /\ pc = "attempt"
    /\ ~is_chat_model
    /\ CanRequest
    /\ \E choices \in
             RemoteChoices(NumPrompts * generation_config.num_return_sequences) :
          /\ generation_output' = choices
          /\ completion_ids_list' =
                [i \in 1 .. Len(choices) |-> Retokenize(tokenizer, choices[i])]
    /\ requests' = Append(requests, CompletionRequest)
    /\ attemptsDone' = attemptsDone + 1
    /\ pc' = AfterCompletion
    /\ UNCHANGED <<tokvars, hf_model_config, tokenizer, callerCfg, call,
                   generation_config, multiple_inputs, inputs_list,
                   is_chat_model, idx, exc, result, sleeps, faults>>

CompletionRaises ==
    \E e \in Errors :
        /\ pc = "attempt"
        /\ ~is_chat_model
        /\ CanRequest
        /\ requests' = Append(requests, CompletionRequest)
        /\ Except(e)
        /\ UNCHANGED <<tokvars, hf_model_config, tokenizer, callerCfg, call,
                       generation_config, multiple_inputs, inputs_list,
                       is_chat_model, completion_ids_list, idx,
                       generation_output, result, sleeps, attemptsDone>>

\* mutant of ChatLoopStart: the list of the attempt before is kept
ChatLoopStartKeeps(ids_list) == ids_list

\* completion_ids_list = list()
ChatLoopStart(ids_list) == <<>>

\* completion_ids_list = list(), and the for loop starts
ChatBegin ==
    /\ pc = "attempt"
    /\ is_chat_model
    /\ completion_ids_list' = ChatLoopStart(completion_ids_list)
    /\ idx' = 1
    /\ pc' = "chat"
    /\ UNCHANGED <<tokvars, hf_model_config, tokenizer, callerCfg, call,
                   generation_config, multiple_inputs, inputs_list,
                   is_chat_model, generation_output, exc, result, requests,
                   sleeps, faults, attemptsDone>>

\* an element of a flat token list is an int: tokenizer.decode iterates it
ChatDecodeTypeError ==
    /\ pc = "chat"
    /\ idx <= Len(inputs_list)
    /\ ~multiple_inputs
    /\ Raise([type |-> "TypeError", chat_msg |-> FALSE])
    /\ UNCHANGED <<tokvars, hf_model_config, tokenizer, callerCfg, call,
                   generation_config, multiple_inputs, inputs_list,
                   is_chat_model, completion_ids_list, idx, generation_output,
                   result, requests, sleeps, faults, attemptsDone>>

ChatOk ==
    /\ pc = "chat"
    /\ idx <= Len(inputs_list)
    /\ multiple_inputs
    /\ CanRequest
    /\ \E choices \in RemoteChoices(generation_config.num_return_sequences) :
          /\ generation_output' = choices
          /\ completion_ids_list' =
                Append(completion_ids_list, Retokenize(tokenizer, choices[1]))
    /\ requests' = Append(requests, ChatRequest(inputs_list[idx]))
    /\ idx' = idx + 1
    /\ UNCHANGED <<tokvars, hf_model_config, tokenizer, callerCfg, call,
                   generation_config, multiple_inputs, inputs_list,
                   is_chat_model, pc, exc, result, sleeps, faults,
                   attemptsDone>>

ChatRaises ==
    \E e \in Errors :
        /\ pc = "chat"
        /\ idx <= Len(inputs_list)
        /\ multiple_inputs
        /\ CanRequest
        /\ requests' = Append(requests, ChatRequest(inputs_list[idx]))
        /\ Except(e)
        /\ UNCHANGED <<tokvars, hf_model_config, tokenizer, callerCfg, call,
                       generation_config, multiple_inputs, inputs_list,
                       is_chat_model, completion_ids_list, idx,
                       generation_output, result, sleeps, attemptsDone>>

\* the for loop is exhausted: break
ChatBreak ==
    /\ pc = "chat"
    /\ idx > Len(inputs_list)
    /\ attemptsDone' = attemptsDone + 1
    /\ pc' = AfterChatLoop
    /\ UNCHANGED <<tokvars, hf_model_config, tokenizer, callerCfg, call,
                   generation_config, multiple_inputs, inputs_list,
                   is_chat_model, completion_ids_list, idx, generation_output,
                   exc, result, requests, sleeps, faults>>

\* sleep(10); continue
Sleep ==
    /\ pc = "sleep"
    /\ sleeps' = Append(sleeps, SleepSeconds)
    /\ pc' = AfterSleep
    /\ UNCHANGED <<tokvars, hf_model_config, tokenizer, callerCfg, call,
                   generation_config, multiple_inputs, inputs_list,
                   is_chat_model, completion_ids_list, idx, generation_output,
                   exc, result, requests, faults, attemptsDone>>

\* the statements after the while loop
Return ==
    /\ pc = "reassemble"
    /\ LET r == Reassemble(tokenizer, multiple_inputs, completion_ids_list)
       IN IF r.ok
          THEN /\ result' = r.tensor
               /\ pc' = "returned"
               /\ exc' = exc
          ELSE /\ Raise(r.error)
               /\ result' = result
    /\ UNCHANGED <<tokvars, hf_model_config, tokenizer, callerCfg, call,
                   generation_config, multiple_inputs, inputs_list,
                   is_chat_model, completion_ids_list, idx, generation_output,
                   requests, sleeps, faults, attemptsDone>>

Next ==
    \/ GenerateBatch
    \/ GenerateSingle
    \/ ProbeOk
    \/ ProbeRaises
    \/ CompletionOk
    \/ CompletionRaises
    \/ ChatBegin
    \/ ChatDecodeTypeError
    \/ ChatOk
    \/ ChatRaises
    \/ ChatBreak
    \/ Sleep
    \/ Return

Spec == Init /\ [][Next]_vars

-----------------------------------------------------------------------------
(* The tokenizer on its own: construction, __call__ and decode *)

\* token ids a reference configuration may give: none, 0, the id of "a", the
\* id of the special token
OptionalIds == {None, Some(0), Some(1), Some(SpecialId)}

\* texts callers encode: "", "!", "a!", "aa" and "a<|endoftext|>"
TokenizerTexts == {<<>>, <<1>>, <<2, 1>>, <<2, 2>>, <<2, SpecialChar>>}

TokInit ==
    /\ hf_model_config \in [pad_token_id : OptionalIds,
                            bos_token_id : OptionalIds,
                            eos_token_id : OptionalIds]
    /\ tokenizer = OpenAITokenizerInit(hf_model_config)
    /\ TokenizerIdle
    /\ GenerateIdle

genvars == <<hf_model_config, tokenizer, callerCfg, call, generation_config,
             multiple_inputs, inputs_list, is_chat_model, completion_ids_list,
             idx, generation_output, pc, exc, result, requests, sleeps, faults,
             attemptsDone>>

\* tokenizer(text) for a list of texts, or for one text, which __call__ wraps
\* in a list
Encode ==
    \E texts \in SeqsUpTo(TokenizerTexts, MaxBatch) \ {<<>>} :
        /\ tpc = "idle"
        /\ \A i \in 1 .. Len(texts) : ~EncodeRaises(tokenizer, texts[i])
        /\ text_list' = texts
        /\ padded_input_ids' = TokenizerCall(tokenizer, texts)
        /\ tpc' = "encoded"
        /\ UNCHANGED <<decoded, genvars>>

EncodeValueError ==
    \E texts \in SeqsUpTo(TokenizerTexts, MaxBatch) \ {<<>>} :
        /\ tpc = "idle"
        /\ \E i \in 1 .. Len(texts) : EncodeRaises(tokenizer, texts[i])
        /\ text_list' = texts
        /\ tpc' = "raised"
        /\ UNCHANGED <<padded_input_ids, decoded, genvars>>

\* tokenizer.decode of one row of the batch
Decode ==
    \E i \in 1 .. Len(padded_input_ids) :
        /\ tpc = "encoded"
        /\ decoded' = [row |-> i,
                       text |-> TokenizerDecode(tokenizer, padded_input_ids[i])]
        /\ tpc' = "decoded"
        /\ UNCHANGED <<text_list, padded_input_ids, genvars>>

TokNext ==
    \/ Encode
    \/ EncodeValueError
    \/ Decode

TokSpec == TokInit /\ [][TokNext]_vars

-----------------------------------------------------------------------------
(* Vocabulary of the properties *)

Entered == pc # "idle"
Leaving == pc \in {"reassemble", "returned"}

IsRetryable(e) == e.type \in {"RateLimitError", "APIError"}
IsChatSignal(e) == e.type = "InvalidRequestError" /\ e.chat_msg

\* the errors raised by generation requests; request 1 is the probe
GenFaults == SelectSeq(faults, LAMBDA f : f.request > 1)

WithoutPad(token_ids) ==
    SelectSeq(token_ids, LAMBDA t : t # tokenizer.pad_token_id)

\* C1: for a 2-D input of N sequences on a completion-style backend, once the
\* generation request has succeeded with N choices, generate issues nothing
\* more and returns a 2-D tensor of exactly N rows, row i holding, padding
\* aside, the re-tokenized stripped text of choice i.
C1_BatchedCompletionReturns ==
    (/\ call.dim = 2
     /\ ~is_chat_model
     /\ attemptsDone >= 1
     /\ Len(generation_output) = Len(call.inputs))
    => /\ Leaving
       /\ pc = "returned" =>
             /\ result.dim = 2
             /\ Len(result.data) = Len(call.inputs)
             /\ \A i \in 1 .. Len(call.inputs) :
                   WithoutPad(result.data[i]) =
                       EncodingEncode(Strip(generation_output[i]))

\* C2: on either backend, when the generation requests raise a rate-limit
\* error exactly once, before any attempt has completed, and every other
\* request succeeds, then once an attempt has completed generate has slept
\* exactly once for 10 seconds, has retried exactly once, and returns without
\* another request.
C2_OneRateLimitOneRetry ==
    (/\ Len(GenFaults) = 1
     /\ GenFaults[1].error.type = "RateLimitError"
     /\ GenFaults[1].done = 0
     /\ attemptsDone >= 1)
    => /\ Leaving
       /\ attemptsDone = 1
       /\ sleeps = <<SleepSeconds>>

\* C3 as stated: after a rate-limit or generic API error of a generation
\* request, the next request generate issues is a new probe.
C3_RetryProbesAgain ==
    \A k \in 1 .. Len(faults) :
        (/\ faults[k].request > 1
         /\ IsRetryable(faults[k].error)
         /\ Len(requests) > faults[k].request)
        => requests[faults[k].request + 1].kind = "probe"

\* the first generation request of an attempt
FirstOfAttempt ==
    IF is_chat_model THEN ChatRequest(inputs_list[1]) ELSE CompletionRequest

\* the rate-limit and generic API errors among the first k errors
RECURSIVE RetryableUpTo(_)
RetryableUpTo(k) ==
    IF k = 0 THEN 0
    ELSE RetryableUpTo(k - 1) + (IF IsRetryable(faults[k].error) THEN 1 ELSE 0)

\* C3 amended: after a rate-limit or generic API error of a generation
\* request, generate sleeps 10 seconds and starts the generation attempt
\* again at its first generation request, keeping the classification of the
\* call's one probe: the probe is the first request of the call and no other
\* request is a probe.
C3_RetryWithoutNewProbe ==
    /\ \A i \in 1 .. Len(requests) : (requests[i].kind = "probe") <=> (i = 1)
    /\ \A i \in 1 .. Len(sleeps) : sleeps[i] = SleepSeconds
    /\ \A k \in 1 .. Len(faults) :
          (/\ faults[k].request > 1
           /\ IsRetryable(faults[k].error)
           /\ Len(requests) > faults[k].request)
          => /\ requests[faults[k].request + 1] = FirstOfAttempt
             /\ Len(sleeps) >= RetryableUpTo(k)
             /\ faults[k].slept = RetryableUpTo(k) - 1

\* C3 witness: a chat-style call whose second chat request failed with a
\* generic API error has slept and issued its first chat request again.
C3_Witness ==
    /\ is_chat_model
    /\ Len(faults) = 2
    /\ faults[2].request = 3
    /\ faults[2].error.type = "APIError"
    /\ Len(requests) = 4
    /\ sleeps = <<SleepSeconds>>

\* C4: no rate-limit or generic API error raised by a remote request of the
\* call, the probe included, leaves generate.
C4_TransientNeverSurfaced ==
    pc = "raised" => ~IsRetryable(exc)

\* what the tokenizer's padding was added to: the rows of a batch, or the one
\* sequence of a 1-D input
InputSequences == IF call.dim = 2 THEN call.content ELSE <<call.content>>

\* what generate kept of them
KeptSequences == IF call.dim = 2 THEN inputs_list ELSE <<inputs_list>>

\* C5: whatever the reference configuration's pad token ID (positive, 0 or
\* absent), the sequences generate sends are the input's sequences with
\* exactly the padding of the tokenizer's encode removed: no prompt holds an
\* entry equal to the tokenizer's pad token ID, and no content token is lost.
C5_OnlyPaddingStripped ==
    Entered =>
        /\ KeptSequences = InputSequences
        /\ \A r \in 1 .. Len(requests) :
              /\ requests[r].kind = "completion" =>
                    requests[r].prompt = call.content
              /\ requests[r].kind = "chat" =>
                    \E i \in 1 .. Len(InputSequences) :
                        requests[r].prompt[1].content =
                            EncodingDecode(InputSequences[i])

\* the remote raised nothing but, possibly, the chat-model signal of the probe
AllRequestsSucceeded ==
    \A k \in 1 .. Len(faults) :
        faults[k].request = 1 /\ IsChatSignal(faults[k].error)

\* C6: for a 1-D input, on either backend, a call whose remote requests all
\* succeed raises nothing, leaves the loop once its generation attempt has
\* completed, and returns a 1-D tensor holding the token IDs of the single
\* output sequence, unpadded.
C6_SingleSequenceReturns1D ==
    (call.dim = 1 /\ AllRequestsSucceeded)
    => /\ pc # "raised"
       /\ attemptsDone >= 1 => Leaving
       /\ pc = "returned" =>
             /\ result.dim = 1
             /\ Len(generation_output) >= 1
             /\ result.data = EncodingEncode(Strip(generation_output[1]))

\* C7: an error of a generation request that is neither a rate-limit nor a
\* generic API error leaves generate at once as the same error: it is the
\* last error and its request the last request of the call, and no sleep
\* follows it.
C7_FatalErrorPropagates ==
    \A k \in 1 .. Len(faults) :
        (faults[k].request > 1 /\ ~IsRetryable(faults[k].error))
        => /\ pc = "raised"
           /\ exc = faults[k].error
           /\ k = Len(faults)
           /\ Len(requests) = faults[k].request
           /\ Len(sleeps) = faults[k].slept

\* C7 witness: after one retried error, a chat request raised an
\* invalid-request error, which left generate.
C7_Witness ==
    /\ pc = "raised"
    /\ Len(faults) = 3
    /\ IsRetryable(faults[2].error)
    /\ faults[3].error.type = "InvalidRequestError"
    /\ is_chat_model
    /\ sleeps = <<SleepSeconds>>

\* C8: the probe has three outcomes.  An invalid-request error carrying the
\* chat-model signal makes the call chat-style and does not leave generate;
\* no error makes it completion-style; any other error leaves generate as it
\* is, the probe being the only request issued.
C8_ProbeClassification ==
    /\ (Len(requests) >= 1 /\ pc # "probe") =>
          IF Len(faults) >= 1 /\ faults[1].request = 1
          THEN IF IsChatSignal(faults[1].error)
               THEN /\ is_chat_model
                    /\ pc = "raised" =>
                          Len(faults) >= 2 \/ exc # faults[1].error
               ELSE /\ pc = "raised"
                    /\ exc = faults[1].error
                    /\ Len(requests) = 1
          ELSE ~is_chat_model
    /\ \A r \in 2 .. Len(requests) :
          requests[r].kind = IF is_chat_model THEN "chat" ELSE "completion"

\* C8 witness: the probe raised the chat-model signal and a chat request
\* followed.
C8_Witness ==
    /\ Len(faults) >= 1
    /\ faults[1].request = 1
    /\ IsChatSignal(faults[1].error)
    /\ Len(requests) >= 2
    /\ requests[2].kind = "chat"

\* the chat requests an attempt on a chat-style backend owes: one for each
\* kept sequence, in input order
OwedChatRequests ==
    [k \in 1 .. Len(KeptSequences) |-> ChatRequest(KeptSequences[k])]

\* the last n requests of the call
LastRequests(n) == SubSeq(requests, Len(requests) - n + 1, Len(requests))

\* C9: on a chat-style backend, for batched and 1-D inputs alike, an attempt
\* issues one chat request for each input sequence, in input order, each a
\* single user-role message holding the decoded text of the whole sequence:
\* inside the loop the requests of the attempt so far are the first owed
\* ones, a completed attempt has issued them all, and the loop itself raises
\* nothing.
C9_OneChatRequestPerSequence ==
    is_chat_model =>
        /\ pc = "chat" =>
              /\ Len(requests) >= idx
              /\ LastRequests(idx - 1) = SubSeq(OwedChatRequests, 1, idx - 1)
        /\ Leaving =>
              /\ Len(requests) > Len(OwedChatRequests)
              /\ LastRequests(Len(OwedChatRequests)) = OwedChatRequests
        /\ pc = "raised" => exc.type # "TypeError"

\* the configuration the call is to use: the overrides over the caller's
\* object when one is passed, over the defaults otherwise
Effective(f) ==
    IF f \in DOMAIN call.kwargs THEN call.kwargs[f]
    ELSE IF call.passed THEN call.config0[f] ELSE DefaultGenerationConfig[f]

\* C10: from the moment generate has resolved its configuration, whether it
\* later returns or raises, a caller's object that was passed holds the
\* override in every overridden field and its old value in every other, a
\* caller's object that was not passed is as it was, and every generation
\* request carries the effective values.
C10_OverridesApplied ==
    Entered =>
        /\ \A f \in Fields :
              callerCfg[f] = IF call.passed THEN Effective(f) ELSE call.config0[f]
        /\ DOMAIN callerCfg = Fields
        /\ \A r \in 2 .. Len(requests) :
              /\ requests[r].params.max_tokens = Effective("max_length")
              /\ requests[r].params.temperature = Effective("temperature")
              /\ requests[r].params.top_p = Effective("top_p")
              /\ requests[r].params.n = Effective("num_return_sequences")
              /\ requests[r].params.frequency_penalty =
                    Effective("repetition_penalty") - OneInTenths

\* C10 witness: a call that was passed the caller's object and overrides has
\* issued generation requests and raised.
C10_Witness ==
    /\ pc = "raised"
    /\ call.passed
    /\ DOMAIN call.kwargs # {}
    /\ Len(requests) >= 3
    /\ callerCfg # call.config0

\* the generation requests of the call
GenerationRequests == SubSeq(requests, 2, Len(requests))

\* C14: after the probe every request of the call, retries included, goes to
\* the endpoint of the call's classification.  A completion-style call
\* issues no chat request and one completion request for each attempt, its
\* prompt holding all the sequences of the input; a chat-style call issues
\* only chat requests.
C14_EndpointDispatch ==
    /\ \A r \in 2 .. Len(requests) :
          IF is_chat_model
          THEN requests[r].kind = "chat"
          ELSE /\ requests[r].kind = "completion"
               /\ requests[r].prompt = inputs_list
               /\ call.dim = 2 =>
                     Len(requests[r].prompt) = Len(call.inputs)
    /\ (Entered /\ ~is_chat_model) =>
          Len(GenerationRequests) = attemptsDone + Len(GenFaults)

\* C14 witness: a completion-style call on a batch of two has retried after
\* an error and completed an attempt.
C14_Witness ==
    /\ ~is_chat_model
    /\ call.dim = 2
    /\ Len(call.inputs) = 2
    /\ Len(GenFaults) = 1
    /\ attemptsDone = 1
    /\ Len(requests) = 3
    /\ sleeps = <<SleepSeconds>>

\* C15: for a batched input of N sequences and any number n of sequences to
\* return, once a generation attempt has completed it holds exactly N output
\* sequences, on both backends, the i-th generated from the i-th input, and a
\* tensor that is returned has exactly N rows.
C15_OneRowPerInput ==
    call.dim = 2 =>
        /\ attemptsDone >= 1 =>
              Len(completion_ids_list) = Len(call.inputs)
        /\ pc = "returned" => Len(result.data) = Len(call.inputs)
        /\ (is_chat_model /\ pc = "chat" /\ idx > 1) =>
              /\ requests[Len(requests)] = ChatRequest(inputs_list[idx - 1])
              /\ Len(completion_ids_list) >= idx - 1
              /\ completion_ids_list[idx - 1] =
                    EncodingEncode(Strip(generation_output[1]))

\* no error was raised by any of the last n requests of the call
LastSucceeded(n) ==
    \A k \in 1 .. Len(faults) : faults[k].request <= Len(requests) - n

\* C16: on a chat-style backend with a batch of N sequences, an attempt that
\* follows a rate-limit or generic API error starts at the first sequence
\* with an empty list: inside the loop the list holds one entry for each
\* request of the running attempt, all of which succeeded, and the batch
\* returned holds exactly N rows, in input order, those of the N requests of
\* the attempt that completed.
C16_RetryStartsAfresh ==
    (is_chat_model /\ call.dim = 2) =>
        /\ pc = "chat" =>
              /\ Len(completion_ids_list) = idx - 1
              /\ Len(requests) >= idx
              /\ LastSucceeded(idx - 1)
              /\ LastRequests(idx - 1) = SubSeq(OwedChatRequests, 1, idx - 1)
              /\ idx > 1 =>
                    completion_ids_list[idx - 1] =
                        EncodingEncode(Strip(generation_output[1]))
        /\ Leaving =>
              /\ Len(completion_ids_list) = Len(call.inputs)
              /\ LastSucceeded(Len(call.inputs))
              /\ LastRequests(Len(call.inputs)) = OwedChatRequests
        /\ pc = "returned" =>
              /\ result.dim = 2
              /\ Len(result.data) = Len(call.inputs)
              /\ \A i \in 1 .. Len(call.inputs) :
                    WithoutPad(result.data[i]) = completion_ids_list[i]

\* C16 witness: the second chat request of a batch of two raised a rate-limit
\* error, the attempt was made again from the first sequence, and generate
\* returned two rows.
C16_Witness ==
    /\ is_chat_model
    /\ pc = "returned"
    /\ Len(call.inputs) = 2
    /\ Len(faults) = 2
    /\ faults[2].request = 3
    /\ faults[2].error.type = "RateLimitError"
    /\ Len(requests) = 5
    /\ Len(result.data) = 2

-----------------------------------------------------------------------------
(* Properties of the tokenizer, under TokSpec *)

Called == tpc \in {"encoded", "decoded"}

\* the encoding of the i-th text of the call
Encoded(i) == EncodingEncode(text_list[i])

\* C11: the output of encode has one row for each text; every row is as long
\* as the longest encoding of the batch; a row is the encoding of its own
\* text followed only by entries equal to the tokenizer's pad token ID; one
\* text alone gives one unpadded row.
C11_RightPaddedToLongest ==
    Called =>
        /\ Len(padded_input_ids) = Len(text_list)
        /\ \A i \in 1 .. Len(text_list) :
              LET row == padded_input_ids[i]
              IN /\ \A j \in 1 .. Len(text_list) : Len(row) >= Len(Encoded(j))
                 /\ \E j \in 1 .. Len(text_list) : Len(row) = Len(Encoded(j))
                 /\ \A k \in 1 .. Len(row) :
                       row[k] = IF k <= Len(Encoded(i)) THEN Encoded(i)[k]
                                ELSE tokenizer.pad_token_id
        /\ Len(text_list) = 1 => padded_input_ids[1] = Encoded(1)

\* C11 witness: a batch of two texts whose first row was padded at its end.
C11_Witness ==
    /\ tpc = "encoded"
    /\ Len(text_list) = 2
    /\ Len(Encoded(1)) = 1
    /\ padded_input_ids[1] = <<Encoded(1)[1], tokenizer.pad_token_id>>
    /\ padded_input_ids[2] = Encoded(2)
    /\ Encoded(2)[1] # tokenizer.pad_token_id

\* C12 as stated: decoding any row of the output of encode gives back the
\* text the row was encoded from.
C12_RoundTrip ==
    tpc = "decoded" => decoded.text = text_list[decoded.row]

\* the encoding of the i-th text holds no token equal to the pad token ID
PadFree(i) ==
    \A k \in 1 .. Len(Encoded(i)) : Encoded(i)[k] # tokenizer.pad_token_id

\* the text of the i-th encoding without its tokens equal to the pad token ID
TextWithoutPadTokens(i) ==
    EncodingDecode(SelectSeq(Encoded(i),
                             LAMBDA t : t # tokenizer.pad_token_id))

\* C12 amended: decoding a row of the output of encode gives back the text
\* the row was encoded from whenever no token of that text's encoding has
\* the tokenizer's pad token ID; decode removes every entry equal to the pad
\* token ID, the padding and content tokens alike, and nothing else, special
\* tokens included.
C12_RoundTripOfPadFreeText ==
    tpc = "decoded" =>
        /\ PadFree(decoded.row) => decoded.text = text_list[decoded.row]
        /\ decoded.text = TextWithoutPadTokens(decoded.row)

\* C12 witness: a padded row of a batch holding the special token's text was
\* decoded to its text.
C12_Witness ==
    /\ tpc = "decoded"
    /\ Len(padded_input_ids[decoded.row]) > Len(Encoded(decoded.row))
    /\ PadFree(decoded.row)
    /\ decoded.text = text_list[decoded.row]
    /\ \E j \in 1 .. Len(text_list) :
          \E k \in 1 .. Len(text_list[j]) : text_list[j][k] = SpecialChar

\* the ID construction owes for an optional ID of the configuration
Resolved(o) == IF IsNone(o) THEN 0 - 1 ELSE o[1]

\* C13: the tokenizer's beginning, end and pad token IDs are the reference
\* configuration's whenever it gives one, 0 included, and -1 only when it
\* gives none; the class ID is the beginning ID, the separator ID the end ID.
C13_IdsFromConfiguration ==
    /\ tokenizer.bos_token_id = Resolved(hf_model_config.bos_token_id)
    /\ tokenizer.eos_token_id = Resolved(hf_model_config.eos_token_id)
    /\ tokenizer.pad_token_id = Resolved(hf_model_config.pad_token_id)
    /\ tokenizer.cls_token_id = tokenizer.bos_token_id
    /\ tokenizer.sep_token_id = tokenizer.eos_token_id

====
